---- MODULE Spec2Model ----
(***************************************************************************)
(* Grid cache and fetch coordinator of the commodity map server.           *)
(*                                                                         *)
(* The model follows src/db/connection.js (CacheManager, GeohashManager,   *)
(* DataManager, first definition, the one start_server.js calls with four  *)
(* arguments), the schemas of src/db/init.js and the /api/commodities      *)
(* handler of start_server.js (src/Dockerfile, lines 27-103).              *)
(* The scorer follows CommodityScorer (src/unnamed/part_002).              *)
(*                                                                         *)
(* A request is a sequence of steps, one per await of the code.  The clock *)
(* is counted in days; it advances between requests.                       *)
(***************************************************************************)
EXTENDS Integers, Sequences, FiniteSets, TLC

\* ------------------------------------------------------------------ bounds
\* Number of requests the server receives in one run.
MaxRequests == 2
\* Last day of the clock.
MaxTime == 7
\* Number of repository faults injected in one run; the run is followed up
\* to the end of the request that takes the last of them.
MaxFaults == 1
\* Edge of a geohash cell, in coordinate units.
CellEdge == 2
\* Longest weight vector given to the scorer.
MaxWeights == 5
\* Distance between two adjacent grid centers, in meters.
GridStep == 1250
\* Number of cells of the largest grid map given to the scorer.
MaxCells == 3

\* Days the clock may jump between two requests.
TickSteps == {3, 4}

\* Request slots; a specification fixes in its initial state how many serve.
Slots == {"a", "b"}

\* The provider's place ids, and the result lists it may answer with for a
\* type: nothing, or the places of that type (p2 is of both types).
PlaceIds == {"p1", "p2", "p3"}
ProviderResults(commodityType) ==
    IF commodityType = "restaurant" THEN {<<>>, <<"p1", "p2">>}
    ELSE {<<>>, <<"p2", "p3">>}

\* Raw query-string values: a numeric text or a non-numeric one.
Num(n) == <<"num", n>>
Text == <<"text", 0>>
LatInputs == {Num(2), Text}
LngInputs == {Num(3), Num(4)}
RadiusInputs == {Num(10000), Num(10001), Text}
TypeInputs == {<<"restaurant">>, <<"gas">>, <<"restaurant", "gas">>}

\* Raw values of the query checks: a number followed by other characters, a
\* latitude beyond the pole, a longitude next to the antimeridian, a radius
\* on either side of the second ring's threshold, and single types.
Prefixed(n) == <<"prefix", n>>
QueryLatInputs == {Num(2), Prefixed(2), Num(91), Text}
QueryLngInputs == {Num(3), Num(4), Num(179), Text}
QueryRadiusInputs == {Num(10000), Num(10001), Text}
QueryTypeInputs == {<<"restaurant">>, <<"gas">>}

\* --------------------------------------------------------------- constants
\* config.cacheTTL: 7 days.
cacheTTL == 7
\* MongoDB's duplicate-key error code, the one storePlaces absorbs.
DuplicateKey == 11000

\* ------------------------------------------------------------ sequence aids
Range(s) == {s[i] : i \in DOMAIN s}

Includes(s, x) == \E i \in DOMAIN s : s[i] = x

\* [...new Set(list)]: first occurrences, in order.
Dedup(s) ==
    LET firsts == SelectSeq([i \in DOMAIN s |-> i],
                            LAMBDA i : \A j \in 1..(i - 1) : s[j] # s[i])
    IN [k \in DOMAIN firsts |-> s[firsts[k]]]

RECURSIVE Flatten(_)
Flatten(ss) == IF ss = <<>> THEN <<>> ELSE Head(ss) \o Flatten(Tail(ss))

\* ------------------------------------------------------------------ geohash
\* One axis of ngeohash.encode: the bisection of [-bound, bound) has no range
\* check, a coordinate beyond the range falls in the outermost cell.
encodeAxis(x, bound) ==
    (IF x >= bound THEN bound - 1 ELSE IF x < -bound THEN -bound ELSE x) \div CellEdge

\* ngeohash.encode at the configured precision: the cell holding the point,
\* as <<column, row>>.
getHash(lat, lng) == <<encodeAxis(lng, 180), encodeAxis(lat, 90)>>

\* The cell one step away: encode of the center moved by one cell, the
\* longitude wrapped around and the latitude held at the pole.
encodeNeighbor(c, dLat, dLng) ==
    LET cols == 360 \div CellEdge
        col == ((c[1] + dLng + cols \div 2) % cols) - cols \div 2
        row == c[2] + dLat
        top == 90 \div CellEdge - 1
        bottom == (-90) \div CellEdge
    IN <<col, IF row > top THEN top ELSE IF row < bottom THEN bottom ELSE row>>

\* ngeohash.neighbors: n, ne, e, se, s, sw, w, nw.
neighbors(c) ==
    << encodeNeighbor(c, 1, 0), encodeNeighbor(c, 1, 1), encodeNeighbor(c, 0, 1),
       encodeNeighbor(c, -1, 1), encodeNeighbor(c, -1, 0), encodeNeighbor(c, -1, -1),
       encodeNeighbor(c, 0, -1), encodeNeighbor(c, 1, -1) >>

\* A footprint whose second ring starts at 10000 meters.
getGridsInRadiusSecondRingAt10000(lat, lng, radiusMeters) ==
    LET centerGridId == getHash(lat, lng)
        ring == neighbors(centerGridId)
        second == IF radiusMeters >= 10000
                  THEN Flatten([i \in 1..Len(ring) |-> neighbors(ring[i])])
                  ELSE <<>>
    IN Dedup(<<centerGridId>> \o ring \o second)

getGridsInRadius(lat, lng, radiusMeters) ==
    LET centerGridId == getHash(lat, lng)
        ring == neighbors(centerGridId)
        second == IF radiusMeters > 10000
                  THEN Flatten([i \in 1..Len(ring) |-> neighbors(ring[i])])
                  ELSE <<>>
    IN Dedup(<<centerGridId>> \o ring \o second)

\* --------------------------------------------------------------- repository
\* _id of a stored document (an ObjectId) and of a provider place (its id).
ObjectId(n) == [kind |-> "oid", n |-> n, s |-> ""]
StringId(id) == [kind |-> "str", n |-> 0, s |-> id]

\* Grid.find without the expiresAt condition.
GridFindIgnoringExpiry(grids, ids, t) ==
    SelectSeq(ids, LAMBDA g : /\ g \in DOMAIN grids
                              /\ grids[g].fetchStatus = "cached")

\* Grid.find({geohash: {$in: ids}, fetchStatus: 'cached', expiresAt: {$gt: t}}),
\* reduced to the geohash strings.
GridFind(grids, ids, t) ==
    SelectSeq(ids, LAMBDA g : /\ g \in DOMAIN grids
                              /\ grids[g].fetchStatus = "cached"
                              /\ grids[g].expiresAt > t)

\* Place.find({geohash: {$in: cellIds}, commodityTypes: commodityType}).
PlaceFind(places, cellIds, commodityType) ==
    SelectSeq(places, LAMBDA d : /\ Includes(cellIds, d.geohash)
                                 /\ Includes(d.commodityTypes, commodityType))

\* A Place collection whose place_id has no unique index.
NoUniqueIndex(places, doc) == FALSE

\* placeSchema: place_id is unique.
UniqueViolation(places, doc) ==
    \E i \in DOMAIN places : places[i].place_id = doc.place_id

RECURSIVE insertMany(_, _, _, _)
\* Place.insertMany(docs, {ordered: false}): every document is attempted; a
\* rejected one leaves its error code in writeErrors.  failIdx is the index
\* of the document the server rejects for another reason (0: none).
insertMany(places, docs, failIdx, k) ==
    IF k > Len(docs) THEN [places |-> places, writeErrors |-> <<>>]
    ELSE LET doc == docs[k]
             code == IF k = failIdx THEN <<121>>
                     ELSE IF UniqueViolation(places, doc) THEN <<DuplicateKey>>
                     ELSE <<>>
             next == IF code = <<>>
                     THEN Append(places,
                                 [_id |-> ObjectId(Len(places) + 1),
                                  place_id |-> doc.place_id,
                                  commodityTypes |-> doc.commodityTypes,
                                  geohash |-> doc.geohash])
                     ELSE places
             rest == insertMany(next, docs, failIdx, k + 1)
         IN [places |-> rest.places, writeErrors |-> code \o rest.writeErrors]

\* An upsert that also marks the documents whose expiresAt has passed.
GridUpsertSweeping(grids, gridId, t) ==
    LET doc == [fetchStatus |-> "cached", fetchedAt |-> t, expiresAt |-> t + cacheTTL]
    IN [g \in DOMAIN grids \cup {gridId} |->
          IF g = gridId THEN doc
          ELSE IF grids[g].expiresAt <= t
               THEN [grids[g] EXCEPT !.fetchStatus = "expired"]
               ELSE grids[g]]

\* An upsert that sets the status and leaves the expiresAt of a document
\* already present as it is.
GridUpsertKeepingExpiry(grids, gridId, t) ==
    LET doc == [fetchStatus |-> "cached", fetchedAt |-> t,
                expiresAt |-> IF gridId \in DOMAIN grids THEN grids[gridId].expiresAt
                              ELSE t + cacheTTL]
    IN [g \in DOMAIN grids \cup {gridId} |-> IF g = gridId THEN doc ELSE grids[g]]

\* An upsert that leaves a document already present as it is.
GridInsertIfAbsent(grids, gridId, t) ==
    LET doc == [fetchStatus |-> "cached", fetchedAt |-> t, expiresAt |-> t + cacheTTL]
    IN [g \in DOMAIN grids \cup {gridId} |-> IF g \in DOMAIN grids THEN grids[g] ELSE doc]

\* Grid.updateOne({geohash: gridId}, {$set: {...}}, {upsert: true}).
GridUpsert(grids, gridId, t) ==
    LET doc == [fetchStatus |-> "cached", fetchedAt |-> t, expiresAt |-> t + cacheTTL]
    IN [g \in DOMAIN grids \cup {gridId} |-> IF g = gridId THEN doc ELSE grids[g]]

\* ------------------------------------------------------------- CacheManager
\* An isCachedInRadius that takes every cell for cached when its read fails.
isCachedInRadiusFailingOpen(centerGridId, grids, t, readOk) ==
    IF readOk
    THEN GridFind(grids, <<centerGridId>> \o neighbors(centerGridId), t)
    ELSE <<centerGridId>> \o neighbors(centerGridId)

isCachedInRadius(centerGridId, grids, t, readOk) ==
    IF readOk
    THEN GridFind(grids, <<centerGridId>> \o neighbors(centerGridId), t)
    ELSE <<>>

\* commodityType is <<>> for null, <<type>> otherwise.
getPlaces(places, gridId, commodityType) ==
    SelectSeq(places, LAMBDA d : /\ d.geohash = gridId
                                 /\ \/ commodityType = <<>>
                                    \/ Includes(d.commodityTypes, commodityType[1]))

\* fetchFromGooglePlaces without its try/catch: a failed call throws.
fetchFromGooglePlacesUncaught(outcome, commodityType) ==
    [threw |-> ~outcome.ok,
     places |-> [i \in 1..Len(outcome.ids) |->
                   [_id |-> StringId(outcome.ids[i]),
                    place_id |-> outcome.ids[i],
                    commodityTypes |-> <<commodityType>>]]]

\* outcome.ok is FALSE when the call fails (no answer, or a status that is
\* not ok); outcome.ids are the ids of the places the provider answers with.
fetchFromGooglePlaces(outcome, commodityType) ==
    IF outcome.ok
    THEN [threw |-> FALSE,
          places |-> [i \in 1..Len(outcome.ids) |->
                        [_id |-> StringId(outcome.ids[i]),
                         place_id |-> outcome.ids[i],
                         commodityTypes |-> <<commodityType>>]]]
    ELSE [threw |-> FALSE, places |-> <<>>]

\* The catch of insertMany: only a duplicate-key error is absorbed.
InsertRethrows(writeErrors) ==
    writeErrors # <<>> /\ writeErrors[1] # DuplicateKey

\* The documents storePlaces inserts for a cell.
placesWithGeohash(gridId, apiPlaces, commodityType) ==
    [i \in 1..Len(apiPlaces) |->
        [place_id |-> apiPlaces[i].place_id,
         commodityTypes |-> <<commodityType>>,
         geohash |-> gridId]]

\* fault.kind: "none", "insert" (insertMany rejects as a whole, no code),
\* "record" (document fault.idx is rejected), "update" (updateOne rejects).
storePlaces(gridId, apiPlaces, commodityType, places, grids, t, fault) ==
    LET ins == insertMany(places, placesWithGeohash(gridId, apiPlaces, commodityType),
                          IF fault.kind = "record" THEN fault.idx ELSE 0, 1)
        dup == Includes(ins.writeErrors, DuplicateKey)
    IN IF fault.kind = "insert"
       THEN [threw |-> TRUE, places |-> places, grids |-> grids, dup |-> FALSE]
       ELSE IF InsertRethrows(ins.writeErrors) \/ fault.kind = "update"
       THEN [threw |-> TRUE, places |-> ins.places, grids |-> grids, dup |-> dup]
       ELSE [threw |-> FALSE, places |-> ins.places,
             grids |-> GridUpsert(grids, gridId, t), dup |-> dup]

\* ------------------------------------------------------------------- handler
\* parseFloat of a query-string value: the number the text starts with, NaN
\* when it starts with none.
parseFloat(raw) ==
    IF raw[1] \in {"num", "prefix"}
    THEN [nan |-> FALSE, v |-> raw[2]]
    ELSE [nan |-> TRUE, v |-> 0]

isNaN(x) == x.nan

\* typeMapping[t] || t
typeMapping(t) ==
    CASE t = "restaurant" -> "restaurant"
      [] t = "gas" -> "gas_station"
      [] t = "grocery" -> "supermarket"
      [] t = "pharmacy" -> "pharmacy"
      [] t = "school" -> "school"
      [] OTHER -> t

defaultTypes == <<"restaurant", "gas_station", "supermarket", "pharmacy", "school">>

commodityTypesOf(requestedTypes) ==
    IF Len(requestedTypes) > 0
    THEN [i \in 1..Len(requestedTypes) |-> typeMapping(requestedTypes[i])]
    ELSE defaultTypes

RECURSIVE uniquePlacesOf(_, _, _)
\* "Remove duplicates by place ID": keeps the first place of every _id.
uniquePlacesOf(allPlaces, seenIds, k) ==
    IF k > Len(allPlaces) THEN <<>>
    ELSE IF allPlaces[k]._id \in seenIds
         THEN uniquePlacesOf(allPlaces, seenIds, k + 1)
         ELSE <<allPlaces[k]>>
              \o uniquePlacesOf(allPlaces, seenIds \cup {allPlaces[k]._id}, k + 1)

\* ---------------------------------------------------------------- fetchData
\* The object fetchData returns, and the one its catch returns.
fetchResult(allPlaces, centerGridId, gridsInRadius, cachedGridIds, newGridIds) ==
    [places |-> allPlaces,
     gridId |-> <<centerGridId>>,
     gridsInRadius |-> Len(gridsInRadius),
     cachedGrids |-> cachedGridIds,
     newGrids |-> newGridIds,
     count |-> Len(allPlaces)]

fetchError == [places |-> <<>>, gridId |-> <<>>, error |-> "error"]

uncachedOf(gridsInRadius, cachedGridIds) ==
    SelectSeq(gridsInRadius, LAMBDA g : ~Includes(cachedGridIds, g))

\* ------------------------------------------------------------------ numbers
\* The scorer's numbers are fixed-point: weights and scores in hundredths,
\* decay weights in ten-thousandths, distances in meters.
MathAbs(x) == IF x < 0 THEN -x ELSE x
MathMin(x, y) == IF x < y THEN x ELSE y
MathMax(x, y) == IF x > y THEN x ELSE y

\* x / y, rounded to the nearest unit (y > 0).
Quotient(x, y) == (2 * x + y) \div (2 * y)

RECURSIVE sqrtBetween(_, _, _)
sqrtBetween(v, lo, hi) ==
    IF lo = hi THEN lo
    ELSE LET mid == (lo + hi + 1) \div 2
         IN IF mid * mid <= v THEN sqrtBetween(v, mid, hi)
            ELSE sqrtBetween(v, lo, mid - 1)

\* Math.sqrt, down to the unit.
MathSqrt(v) == sqrtBetween(v, 0, MathMin(v, 46340))

\* Math.exp of -k/8 for k in 0..16, in ten-thousandths.
MathExp(negEighths) ==
    << 10000, 8825, 7788, 6873, 6065, 5353, 4724, 4169, 3679,
       3247, 2865, 2528, 2231, 1969, 1738, 1534, 1353 >>[negEighths + 1]

RECURSIVE SumTo(_, _)
SumTo(s, k) == IF k = 0 THEN 0 ELSE SumTo(s, k - 1) + s[k]

\* reduce((sum, x) => sum + x, 0)
Sum(s) == SumTo(s, Len(s))

\* ----------------------------------------------------------- CommodityScorer
\* The constructor's defaults: meters, a factor, and tenths of a factor.
maxDistance == 5000
decayFactor == 2
varianceAmplification == 15

\* Haversine distance of two points of one meridian, whose latitudes are
\* counted in grid steps: the arc between them.
calculateDistance(point1, point2) == GridStep * MathAbs(point2.lat - point1.lat)

\* A decay that cuts off at maxDistance itself.
calculateScoreDecayCutAtMax(distance) ==
    IF distance >= maxDistance THEN 0
    ELSE MathExp((decayFactor * distance * distance * 8) \div (maxDistance * maxDistance))

calculateScoreDecay(distance) ==
    IF distance > maxDistance THEN 0
    ELSE MathExp((decayFactor * distance * distance * 8) \div (maxDistance * maxDistance))

\* weights are whole numbers of 0..100; the result is in hundredths.  The
\* three parameters are the early return on a zero deviation, the
\* amplification and the clamp, each present in the code.
varianceMultipliers(weights, zeroCheck, amplification, clamp) ==
    LET n == Len(weights)
        mean == (100 * Sum(weights)) \div n
        variance == Sum([i \in 1..n |-> (100 * weights[i] - mean) * (100 * weights[i] - mean)])
                        \div n
        stdDev == MathSqrt(variance)
    IN IF stdDev = 0
       THEN [i \in 1..n |-> IF zeroCheck THEN 100 * weights[i] ELSE -1]
       ELSE [i \in 1..n |->
               LET deviationFromMean == MathAbs(100 * weights[i] - mean)
                   zScore == (1000 * deviationFromMean) \div stdDev
                   amplificationFactor == 1000 + (zScore * amplification) \div 10
                   amplified == mean + ((100 * weights[i] - mean) * amplificationFactor)
                                           \div 1000
               IN IF clamp THEN MathMax(0, MathMin(10000, amplified)) ELSE amplified]

\* calculateVarianceMultipliers without the return on a zero deviation: the
\* z-score is 0/0 and every weight comes out as NaN (-1 here).
calculateVarianceMultipliersNoZeroCheck(weights) ==
    IF Len(weights) = 0 THEN <<>>
    ELSE IF Len(weights) = 1 THEN [i \in 1..1 |-> 100 * weights[i]]
    ELSE varianceMultipliers(weights, FALSE, varianceAmplification, TRUE)

\* calculateVarianceMultipliers with an amplification of 0.
calculateVarianceMultipliersFlat(weights) ==
    IF Len(weights) = 0 THEN <<>>
    ELSE IF Len(weights) = 1 THEN [i \in 1..1 |-> 100 * weights[i]]
    ELSE varianceMultipliers(weights, TRUE, 0, TRUE)

\* calculateVarianceMultipliers without the clamp to 0..100.
calculateVarianceMultipliersUnclamped(weights) ==
    IF Len(weights) = 0 THEN <<>>
    ELSE IF Len(weights) = 1 THEN [i \in 1..1 |-> 100 * weights[i]]
    ELSE varianceMultipliers(weights, TRUE, varianceAmplification, FALSE)

calculateVarianceMultipliers(weights) ==
    IF Len(weights) = 0 THEN <<>>
    ELSE IF Len(weights) = 1 THEN [i \in 1..1 |-> 100 * weights[i]]
    ELSE varianceMultipliers(weights, TRUE, varianceAmplification, TRUE)

\* A grid map is the list of its cells in insertion order, each with its
\* gridId, center and commodityCounts; a base-score table is the list of its
\* entries.  An argument that may be left out is <<>> or <<value>>.
gridGet(gridMap, gridId) ==
    SelectSeq(gridMap, LAMBDA grid : grid.gridId = gridId)

baseGet(baseScores, gridId) ==
    SelectSeq(baseScores, LAMBDA entry : entry.gridId = gridId)

\* calculateGridScore without the return on a total count of zero: the
\* average is 0/0, NaN (-1 here), and the clamp keeps it.
calculateGridScoreNoZeroCheck(gridData, weights, amplifiedWeightsInput) ==
    LET counts == gridData.commodityCounts
        amplifiedWeights == IF amplifiedWeightsInput # <<>>
                            THEN amplifiedWeightsInput[1]
                            ELSE calculateVarianceMultipliers(weights)
        len == MathMin(Len(counts), Len(amplifiedWeights))
        totalWeighted == Sum([i \in 1..len |-> counts[i] * amplifiedWeights[i]])
        totalCount == Sum([i \in 1..len |-> counts[i]])
    IN IF Len(weights) = 0 \/ Len(counts) = 0 THEN 0
       ELSE IF totalCount = 0 THEN -1
       ELSE MathMax(0, MathMin(10000, Quotient(totalWeighted, totalCount)))

calculateGridScore(gridData, weights, amplifiedWeightsInput) ==
    LET counts == gridData.commodityCounts
        amplifiedWeights == IF amplifiedWeightsInput # <<>>
                            THEN amplifiedWeightsInput[1]
                            ELSE calculateVarianceMultipliers(weights)
        len == MathMin(Len(counts), Len(amplifiedWeights))
        totalWeighted == Sum([i \in 1..len |-> counts[i] * amplifiedWeights[i]])
        totalCount == Sum([i \in 1..len |-> counts[i]])
    IN IF Len(weights) = 0 \/ Len(counts) = 0 THEN 0
       ELSE IF totalCount = 0 THEN 0
       ELSE MathMax(0, MathMin(10000, Quotient(totalWeighted, totalCount)))

\* A base-score table computed from the weights as given, not amplified.
calculateAllBaseScoresUnamplified(gridMap, weights, amplifiedWeightsInput) ==
    [i \in DOMAIN gridMap |->
        [gridId |-> gridMap[i].gridId,
         score |-> calculateGridScore(gridMap[i], weights,
                                      <<[k \in DOMAIN weights |-> 100 * weights[k]]>>)]]

calculateAllBaseScores(gridMap, weights, amplifiedWeightsInput) ==
    LET amplified == IF amplifiedWeightsInput # <<>>
                     THEN amplifiedWeightsInput[1]
                     ELSE calculateVarianceMultipliers(weights)
    IN [i \in DOMAIN gridMap |->
          [gridId |-> gridMap[i].gridId,
           score |-> calculateGridScore(gridMap[i], weights, <<amplified>>)]]

\* A loop over the grids that skips none.
contributesAlways(distance, gridId, targetGridId) == TRUE

\* The grids the loop of calculateAggregatedScore does not skip.
contributes(distance, gridId, targetGridId) ==
    ~(distance > maxDistance /\ gridId # targetGridId)

\* An aggregated score that is the weighted sum itself.
normalizeMissing(totalWeightedScore, totalWeight, baseScore) ==
    Quotient(totalWeightedScore, 10000)

\* "Normalize aggregated score by total weight".
normalize(totalWeightedScore, totalWeight, baseScore) ==
    IF totalWeight > 0 THEN Quotient(totalWeightedScore, totalWeight) ELSE baseScore

\* A breakdown left in the order of the grid map.
sortByDistanceMissing(breakdown) == breakdown

RECURSIVE sortByDistance(_)
\* breakdown.sort((a, b) => a.distance - b.distance): stable.
sortByDistance(breakdown) ==
    IF Len(breakdown) <= 1 THEN breakdown
    ELSE LET rest == sortByDistance(Tail(breakdown))
             first == Head(breakdown)
             before == SelectSeq(rest, LAMBDA e : e.distance < first.distance)
             after == SelectSeq(rest, LAMBDA e : e.distance >= first.distance)
         IN before \o <<first>> \o after

calculateAggregatedScore(targetGridId, gridMap, weights, baseScores, amplifiedWeightsInput) ==
    IF gridGet(gridMap, targetGridId) = <<>>
    THEN [gridId |-> targetGridId, baseScore |-> 0, aggregatedScore |-> 0,
          contributingGrids |-> 0, breakdown |-> <<>>]
    ELSE
    LET target == gridGet(gridMap, targetGridId)[1]
        amplified == IF amplifiedWeightsInput # <<>>
                     THEN amplifiedWeightsInput[1]
                     ELSE calculateVarianceMultipliers(weights)
        scoreOf(grid) ==
            IF baseScores # <<>> /\ baseGet(baseScores[1], grid.gridId) # <<>>
            THEN baseGet(baseScores[1], grid.gridId)[1].score
            ELSE calculateGridScore(grid, weights, <<amplified>>)
        baseScore == scoreOf(target)
        distanceTo(grid) ==
            calculateDistance([lat |-> target.centerLat, lng |-> target.centerLng],
                              [lat |-> grid.centerLat, lng |-> grid.centerLng])
        taken == SelectSeq(gridMap,
                     LAMBDA grid : contributes(distanceTo(grid), grid.gridId, targetGridId))
        entries == [i \in DOMAIN taken |->
                      [gridId |-> taken[i].gridId,
                       distance |-> distanceTo(taken[i]),
                       weight |-> calculateScoreDecay(distanceTo(taken[i])),
                       score |-> scoreOf(taken[i])]]
        totalWeightedScore == Sum([i \in DOMAIN entries |-> entries[i].score * entries[i].weight])
        totalWeight == Sum([i \in DOMAIN entries |-> entries[i].weight])
        breakdown == [i \in DOMAIN entries |->
                        [gridId |-> entries[i].gridId,
                         distance |-> entries[i].distance,
                         contribution |-> Quotient(entries[i].score * entries[i].weight, 10000),
                         weight |-> entries[i].weight,
                         score |-> entries[i].score]]
    IN [gridId |-> targetGridId,
        baseScore |-> baseScore,
        aggregatedScore |-> normalize(totalWeightedScore, totalWeight, baseScore),
        contributingGrids |-> Len(breakdown),
        breakdown |-> sortByDistance(breakdown)]

calculateAllAggregatedScores(gridMap, weights, baseScores, amplifiedWeightsInput) ==
    LET resolvedAmplified == IF amplifiedWeightsInput # <<>>
                             THEN amplifiedWeightsInput[1]
                             ELSE calculateVarianceMultipliers(weights)
        resolvedBase == IF baseScores # <<>>
                        THEN baseScores[1]
                        ELSE calculateAllBaseScores(gridMap, weights, <<resolvedAmplified>>)
    IN [i \in DOMAIN gridMap |->
          calculateAggregatedScore(gridMap[i].gridId, gridMap, weights,
                                   <<resolvedBase>>, <<resolvedAmplified>>)]

RECURSIVE sortNumbers(_)
\* [...aggregated].sort((a, b) => a - b)
sortNumbers(list) ==
    IF Len(list) <= 1 THEN list
    ELSE LET rest == sortNumbers(Tail(list))
         IN SelectSeq(rest, LAMBDA x : x < Head(list)) \o <<Head(list)>>
                \o SelectSeq(rest, LAMBDA x : x >= Head(list))

\* grid.commodities?.length || 0
commoditiesLength(grid) ==
    IF "commodities" \in DOMAIN grid THEN Len(grid.commodities) ELSE 0

\* getSummary once it has the aggregated scores of all grids.
summarize(gridMap, allScores) ==
    LET aggregated == [i \in DOMAIN allScores |-> allScores[i].aggregatedScore]
        sorted == sortNumbers(aggregated)
        n == Len(sorted)
        median == IF n % 2 = 0
                  THEN Quotient(sorted[n \div 2] + sorted[n \div 2 + 1], 2)
                  ELSE sorted[n \div 2 + 1]
    IN IF Len(aggregated) = 0
       THEN [totalGrids |-> 0, totalCommodities |-> 0, averageScore |-> 0,
             maxScore |-> 0, minScore |-> 0, medianScore |-> 0]
       ELSE [totalGrids |-> Len(gridMap),
             totalCommodities |-> Sum([i \in DOMAIN gridMap |-> commoditiesLength(gridMap[i])]),
             averageScore |-> Quotient(Sum(aggregated), n),
             maxScore |-> sorted[n],
             minScore |-> sorted[1],
             medianScore |-> median]

getSummary(gridMap, weights) ==
    LET amplified == calculateVarianceMultipliers(weights)
        baseScores == calculateAllBaseScores(gridMap, weights, <<amplified>>)
    IN summarize(gridMap,
                 calculateAllAggregatedScores(gridMap, weights,
                                              <<baseScores>>, <<amplified>>))

\* -------------------------------------------------------------------- state
VARIABLES
    grids,      \* Grid collection: geohash -> metadata document
    places,     \* Place collection, in insertion order
    now,        \* the clock, in days
    req,        \* per slot: the request being served and where it stands
    active,     \* the slots that serve requests
    nreq,       \* requests received so far
    nfault,     \* repository faults injected so far
    lastFetch,  \* <<>> or the arguments and day of the last fetch that stored its result
    scorer      \* the CommodityScorer call being made, its arguments and its result

vars == <<grids, places, now, req, active, nreq, nfault, lastFetch, scorer>>

\* No call of the scorer is being made.
NoSummary ==
    [totalGrids |-> 0, totalCommodities |-> 0, averageScore |-> 0,
     maxScore |-> 0, minScore |-> 0, medianScore |-> 0]

IdleScorer ==
    [pc |-> "idle", op |-> "none", weights |-> <<>>, distance |-> 0, gridMap |-> <<>>,
     amplified |-> <<>>, decay |-> 0, baseScores |-> <<>>, results |-> <<>>,
     summary |-> NoSummary]

NoData == [places |-> <<>>]
NoResponse == [status |-> 0]

IdleReq ==
    [pc |-> "idle", lat |-> 0, lng |-> 0, radius |-> 0, types |-> <<>>, ti |-> 0,
     hAll |-> <<>>, cachedGridIds |-> <<>>, uncached |-> <<>>, fdAll |-> <<>>,
     apiPlaces |-> <<>>, newGridIds |-> <<>>, data |-> NoData,
     response |-> NoResponse,
     \* what happened to the request, kept for the properties; issued holds
     \* the indices of the types a provider call was issued for, lapsed the
     \* cells a read of the slot has left out although they are stored,
     \* readFailed that the Grid.find of the fetch being served was rejected
     numeric |-> TRUE, fault |-> "none", storeCell |-> <<>>, provFailed |-> FALSE, fetched |-> {},
     calls |-> 0, anyInvalid |-> FALSE, repeat |-> FALSE, dupSeen |-> FALSE,
     wrote |-> <<>>, issued |-> <<>>, lapsed |-> {}, readFailed |-> FALSE]

Valid(g) ==
    g \in DOMAIN grids /\ grids[g].fetchStatus = "cached" /\ grids[g].expiresAt > now

Init ==
    /\ grids = <<>>
    /\ places = <<>>
    /\ now = 0
    /\ req = [r \in Slots |-> IdleReq]
    /\ active = {"a"}
    /\ nreq = 0
    /\ nfault = 0
    /\ lastFetch = <<>>
    /\ scorer = IdleScorer

\* ------------------------------------------------------------------ actions
ProviderOutcomes(commodityType) ==
    {[ok |-> FALSE, ids |-> <<>>]}
    \cup {[ok |-> TRUE, ids |-> ids] : ids \in ProviderResults(commodityType)}

StoreFaults(n) ==
    {[kind |-> "none", idx |-> 0], [kind |-> "insert", idx |-> 0],
     [kind |-> "update", idx |-> 0]}
    \cup {[kind |-> "record", idx |-> i] : i \in 1..n}

\* fetchData after its reads: the uncached cells decide what comes next.
AfterReads(q, cachedGridIds, allPlaces) ==
    LET gridsInRadius == getGridsInRadius(q.lat, q.lng, q.radius)
        uncachedGridIds == uncachedOf(gridsInRadius, cachedGridIds)
    IN IF Len(uncachedGridIds) > 0
       THEN [q EXCEPT !.pc = "fd_api", !.cachedGridIds = cachedGridIds,
                      !.uncached = uncachedGridIds, !.fdAll = allPlaces]
       ELSE [q EXCEPT !.pc = "fd_done", !.cachedGridIds = cachedGridIds,
                      !.uncached = uncachedGridIds, !.fdAll = allPlaces,
                      !.data = fetchResult(allPlaces, getHash(q.lat, q.lng),
                                           gridsInRadius, cachedGridIds, <<>>)]

\* The handler receives a query of the given raw values, parses and
\* validates it; limit is the number of requests of the run.
ReceiveUpTo(r, limit, lats, lngs, radii, typeLists) ==
    /\ r \in active
    /\ req[r].pc = "idle"
    /\ nreq < limit
    /\ \E rawLat \in lats, rawLng \in lngs, rawRadius \in radii,
          requestedTypes \in typeLists :
          LET lat == parseFloat(rawLat)
              lng == parseFloat(rawLng)
              radius == parseFloat(rawRadius)
              q == [IdleReq EXCEPT !.numeric =
                        \A raw \in {rawLat, rawLng, rawRadius} : raw[1] = "num",
                                   !.lapsed = req[r].lapsed]
          IN req' = [req EXCEPT ![r] =
                IF isNaN(lat) \/ isNaN(lng) \/ isNaN(radius)
                THEN [q EXCEPT !.pc = "done",
                               !.response = [status |-> 400, error |-> "invalid"]]
                ELSE [q EXCEPT !.pc = "loop", !.lat = lat.v, !.lng = lng.v,
                               !.radius = radius.v,
                               !.types = commodityTypesOf(requestedTypes),
                               !.ti = 1]]
    /\ nreq' = nreq + 1
    /\ UNCHANGED <<grids, places, now, active, nfault, lastFetch, scorer>>

ReceiveFrom(r, lats, lngs, radii, typeLists) ==
    ReceiveUpTo(r, MaxRequests, lats, lngs, radii, typeLists)

\* A query of the server's run; none comes after the last fault.
Receive(r) ==
    /\ nfault < MaxFaults
    /\ ReceiveFrom(r, LatInputs, LngInputs, RadiusInputs, TypeInputs)

\* A query of the query checks.
ReceiveQuery(r) ==
    ReceiveFrom(r, QueryLatInputs, QueryLngInputs, QueryRadiusInputs, QueryTypeInputs)

\* The handler calls fetchData for the next type; fetchData computes the
\* footprint and awaits isCachedInRadius.
FetchBegin(r) ==
    /\ req[r].pc = "loop"
    /\ \E readOk \in BOOLEAN :
          /\ readOk \/ nfault < MaxFaults
          /\ nfault' = IF readOk THEN nfault ELSE nfault + 1
          /\ LET q == req[r]
                 commodityType == q.types[q.ti]
                 centerGridId == getHash(q.lat, q.lng)
                 gridsInRadius == getGridsInRadius(q.lat, q.lng, q.radius)
                 cachedGridIds == isCachedInRadius(centerGridId, grids, now, readOk)
                 q1 == [q EXCEPT
                          !.fault = IF readOk THEN q.fault ELSE "gridFind",
                          !.readFailed = ~readOk,
                          !.lapsed = IF readOk
                                     THEN q.lapsed \cup
                                          {g \in {centerGridId} \cup Range(neighbors(centerGridId)) :
                                              g \in DOMAIN grids /\ ~Includes(cachedGridIds, g)}
                                     ELSE q.lapsed,
                          !.calls = 0,
                          !.dupSeen = FALSE,
                          !.anyInvalid = \E g \in Range(gridsInRadius) : ~Valid(g),
                          !.repeat = /\ lastFetch # <<>>
                                     /\ lastFetch[1].lat = q.lat
                                     /\ lastFetch[1].lng = q.lng
                                     /\ lastFetch[1].radius = q.radius
                                     /\ lastFetch[1].type = commodityType
                                     /\ now < lastFetch[1].at + cacheTTL]
             IN req' = [req EXCEPT ![r] =
                   IF Len(cachedGridIds) > 0
                   THEN [q1 EXCEPT !.pc = "fd_find", !.cachedGridIds = cachedGridIds]
                   ELSE AfterReads(q1, cachedGridIds, <<>>)]
    /\ UNCHANGED <<grids, places, now, active, nreq, lastFetch, scorer>>

\* fetchData reads the places of the cached cells.
FindCached(r) ==
    /\ req[r].pc = "fd_find"
    /\ \E readOk \in BOOLEAN :
          /\ readOk \/ nfault < MaxFaults
          /\ nfault' = IF readOk THEN nfault ELSE nfault + 1
          /\ LET q == req[r]
                 cachedPlaces == PlaceFind(places, q.cachedGridIds, q.types[q.ti])
             IN req' = [req EXCEPT ![r] =
                   IF readOk
                   THEN AfterReads(q, q.cachedGridIds, cachedPlaces)
                   ELSE [q EXCEPT !.pc = "fd_done", !.fault = "placeFind",
                                  !.data = fetchError]]
    /\ UNCHANGED <<grids, places, now, active, nreq, lastFetch, scorer>>

\* fetchData asks the provider, once, for the uncached cells.
CallProvider(r) ==
    /\ req[r].pc = "fd_api"
    /\ \E outcome \in ProviderOutcomes(req[r].types[req[r].ti]) :
          LET q == req[r]
              got == fetchFromGooglePlaces(outcome, q.types[q.ti])
              q1 == [q EXCEPT !.calls = q.calls + 1,
                              !.issued = Append(q.issued, q.ti),
                              !.provFailed = q.provFailed \/ ~outcome.ok,
                              !.fetched = q.fetched \cup Range(outcome.ids)]
          IN req' = [req EXCEPT ![r] =
                IF got.threw
                THEN [q1 EXCEPT !.pc = "fd_done", !.data = fetchError]
                ELSE IF Len(got.places) > 0
                THEN [q1 EXCEPT !.pc = "fd_store", !.apiPlaces = got.places]
                ELSE [q1 EXCEPT !.pc = "fd_done",
                                !.data = fetchResult(q.fdAll, getHash(q.lat, q.lng),
                                            getGridsInRadius(q.lat, q.lng, q.radius),
                                            q.cachedGridIds, <<>>)]]
    /\ UNCHANGED <<grids, places, now, active, nreq, nfault, lastFetch, scorer>>

\* One turn of the loop over the uncached cells: storePlaces, then push.
StorePlaces(r) ==
    /\ req[r].pc = "fd_store"
    /\ \E fault \in StoreFaults(Len(req[r].apiPlaces)) :
          /\ fault.kind = "none" \/ nfault < MaxFaults
          /\ nfault' = IF fault.kind = "none" THEN nfault ELSE nfault + 1
          /\ LET q == req[r]
                 gridId == q.uncached[Len(q.newGridIds) + 1]
                 st == storePlaces(gridId, q.apiPlaces, q.types[q.ti],
                                   places, grids, now, fault)
                 newGridIds == Append(q.newGridIds, gridId)
                 allPlaces == q.fdAll \o q.apiPlaces
                 q1 == [q EXCEPT !.dupSeen = q.dupSeen \/ st.dup,
                                 !.fault = IF fault.kind = "none" THEN q.fault
                                           ELSE fault.kind,
                                 !.storeCell = IF fault.kind = "none" THEN q.storeCell
                                               ELSE <<gridId>>]
                 last == Len(newGridIds) = Len(q.uncached)
             IN /\ places' = st.places
                /\ grids' = st.grids
                /\ req' = [req EXCEPT ![r] =
                      IF st.threw
                      THEN [q1 EXCEPT !.pc = "fd_done", !.data = fetchError]
                      ELSE IF last
                      THEN [q1 EXCEPT !.pc = "fd_done", !.newGridIds = newGridIds,
                                      !.fdAll = allPlaces,
                                      !.data = fetchResult(allPlaces,
                                            getHash(q.lat, q.lng),
                                            getGridsInRadius(q.lat, q.lng, q.radius),
                                            q.cachedGridIds, newGridIds)]
                      ELSE [q1 EXCEPT !.newGridIds = newGridIds]]
                /\ lastFetch' =
                      IF ~st.threw /\ last
                      THEN <<[lat |-> q.lat, lng |-> q.lng, radius |-> q.radius,
                              type |-> q.types[q.ti], at |-> now]>>
                      ELSE lastFetch
    /\ UNCHANGED <<now, active, nreq, scorer>>

\* A loop that stays at the type it has fetched.
nextIndexSame(ti) == ti

\* for (const commodityType of commodityTypes): the type after this one.
nextIndex(ti) == ti + 1

\* The handler takes what fetchData returned: it logs, appends the places and
\* goes on with the next type, or answers after the last one.
HandleData(r) ==
    /\ req[r].pc = "fd_done"
    /\ LET q == req[r]
           data == q.data
           allPlaces == q.hAll \o data.places
           next == [q EXCEPT !.hAll = allPlaces, !.cachedGridIds = <<>>,
                             !.uncached = <<>>, !.fdAll = <<>>, !.apiPlaces = <<>>,
                             !.newGridIds = <<>>, !.data = NoData, !.calls = 0,
                             !.anyInvalid = FALSE, !.repeat = FALSE,
                             !.dupSeen = FALSE, !.wrote = <<>>, !.readFailed = FALSE]
       IN req' = [req EXCEPT ![r] =
             IF "cachedGrids" \notin DOMAIN data
             THEN \* data.cachedGrids.length throws; the handler's catch answers
                  [next EXCEPT !.pc = "done", !.hAll = <<>>,
                               !.response = [status |-> 500, error |-> "error"]]
             ELSE IF q.ti < Len(q.types)
             THEN [next EXCEPT !.pc = "loop", !.ti = nextIndex(q.ti)]
             ELSE [next EXCEPT !.pc = "done", !.hAll = <<>>,
                               !.response = [status |-> 200,
                                   places |-> uniquePlacesOf(allPlaces, {}, 1)]]]
    /\ UNCHANGED <<grids, places, now, active, nreq, nfault, lastFetch, scorer>>

\* The response is sent; the slot is free again.
Finish(r) ==
    /\ req[r].pc = "done"
    /\ req' = [req EXCEPT ![r] = [IdleReq EXCEPT !.lapsed = req[r].lapsed]]
    /\ UNCHANGED <<grids, places, now, active, nreq, nfault, lastFetch, scorer>>

\* Days pass while no request is being served; day 0 is the day of the
\* first request.
Tick ==
    /\ \A r \in Slots : req[r].pc = "idle"
    /\ nreq > 0
    /\ \E d \in TickSteps :
          /\ now + d <= MaxTime
          /\ now' = now + d
    /\ UNCHANGED <<grids, places, req, active, nreq, nfault, lastFetch, scorer>>

Next ==
    \/ \E r \in Slots : Receive(r)
    \/ \E r \in Slots : FetchBegin(r)
    \/ \E r \in Slots : FindCached(r)
    \/ \E r \in Slots : CallProvider(r)
    \/ \E r \in Slots : StorePlaces(r)
    \/ \E r \in Slots : HandleData(r)
    \/ \E r \in Slots : Finish(r)
    \/ Tick

Spec == Init /\ [][Next]_vars

\* The server answering queries of any text, its repository without faults.
InitQuery ==
    /\ grids = <<>>
    /\ places = <<>>
    /\ now = 0
    /\ req = [r \in Slots |-> IdleReq]
    /\ active = {"a"}
    /\ nreq = 0
    /\ nfault = MaxFaults
    /\ lastFetch = <<>>
    /\ scorer = IdleScorer

NextQuery ==
    \/ \E r \in Slots : ReceiveQuery(r)
    \/ \E r \in Slots : FetchBegin(r)
    \/ \E r \in Slots : FindCached(r)
    \/ \E r \in Slots : CallProvider(r)
    \/ \E r \in Slots : StorePlaces(r)
    \/ \E r \in Slots : HandleData(r)
    \/ \E r \in Slots : Finish(r)

SpecQuery == InitQuery /\ [][NextQuery]_vars

\* The server answering the same kind of query over the days, one request
\* more than in the other runs: a cell is stored, found, left to expire,
\* stored again and found again.  The repository has no faults.
ReceiveTtl(r) ==
    ReceiveUpTo(r, MaxRequests + 1, {Num(2)}, LngInputs, {Num(10000)}, {<<"restaurant">>})

NextTtl ==
    \/ \E r \in Slots : ReceiveTtl(r)
    \/ \E r \in Slots : FetchBegin(r)
    \/ \E r \in Slots : FindCached(r)
    \/ \E r \in Slots : CallProvider(r)
    \/ \E r \in Slots : StorePlaces(r)
    \/ \E r \in Slots : HandleData(r)
    \/ \E r \in Slots : Finish(r)
    \/ Tick

SpecTtl == InitQuery /\ [][NextTtl]_vars

\* ------------------------------------------------------ concurrent requests
\* Two requests served at once: the steps of one interleave with the steps of
\* the other at every await, those of storePlaces included, and the clock
\* advances while they are served.  The repository has no faults.
InitConc ==
    /\ grids = <<>>
    /\ places = <<>>
    /\ now = 0
    /\ req = [r \in Slots |-> IdleReq]
    /\ active = Slots
    /\ nreq = 0
    /\ nfault = MaxFaults
    /\ lastFetch = <<>>
    /\ scorer = IdleScorer

\* The slots take the requests in turn.
ReceiveConc(r) ==
    /\ (r = "a") = (nreq % 2 = 0)
    /\ ReceiveFrom(r, {Num(2)}, LngInputs, {Num(10000)}, {<<"restaurant">>})

\* storePlaces up to its first await: Place.insertMany and its catch.
InsertPlaces(r) ==
    /\ req[r].pc = "fd_store"
    /\ LET q == req[r]
           gridId == q.uncached[Len(q.newGridIds) + 1]
           ins == insertMany(places,
                             placesWithGeohash(gridId, q.apiPlaces, q.types[q.ti]),
                             0, 1)
           q1 == [q EXCEPT !.dupSeen = q.dupSeen
                                \/ Includes(ins.writeErrors, DuplicateKey)]
       IN /\ places' = ins.places
          /\ req' = [req EXCEPT ![r] =
                IF InsertRethrows(ins.writeErrors)
                THEN [q1 EXCEPT !.pc = "fd_done", !.data = fetchError]
                ELSE [q1 EXCEPT !.pc = "fd_upsert"]]
    /\ UNCHANGED <<grids, now, active, nreq, nfault, lastFetch, scorer>>

\* storePlaces from Grid.updateOne on, and the end of the loop turn.
UpsertGrid(r) ==
    /\ req[r].pc = "fd_upsert"
    /\ LET q == req[r]
           gridId == q.uncached[Len(q.newGridIds) + 1]
           newGridIds == Append(q.newGridIds, gridId)
           allPlaces == q.fdAll \o q.apiPlaces
           q1 == [q EXCEPT !.newGridIds = newGridIds,
                           !.wrote = Append(q.wrote, [g |-> gridId, at |-> now])]
           last == Len(newGridIds) = Len(q.uncached)
       IN /\ grids' = GridUpsert(grids, gridId, now)
          /\ req' = [req EXCEPT ![r] =
                IF last
                THEN [q1 EXCEPT !.pc = "fd_done", !.fdAll = allPlaces,
                                !.data = fetchResult(allPlaces,
                                      getHash(q.lat, q.lng),
                                      getGridsInRadius(q.lat, q.lng, q.radius),
                                      q.cachedGridIds, newGridIds)]
                ELSE [q1 EXCEPT !.pc = "fd_store"]]
          /\ lastFetch' =
                IF last
                THEN <<[lat |-> q.lat, lng |-> q.lng, radius |-> q.radius,
                        type |-> q.types[q.ti], at |-> now]>>
                ELSE lastFetch
    /\ UNCHANGED <<places, now, active, nreq, nfault, scorer>>

\* Days pass, once, while requests are being served.
ConcTick ==
    /\ \E r \in Slots : req[r].pc # "idle"
    /\ now = 0
    /\ \E d \in TickSteps :
          /\ now + d <= MaxTime
          /\ now' = now + d
    /\ UNCHANGED <<grids, places, req, active, nreq, nfault, lastFetch, scorer>>

NextConc ==
    \/ \E r \in Slots : ReceiveConc(r)
    \/ \E r \in Slots : FetchBegin(r)
    \/ \E r \in Slots : FindCached(r)
    \/ \E r \in Slots : CallProvider(r)
    \/ \E r \in Slots : InsertPlaces(r)
    \/ \E r \in Slots : UpsertGrid(r)
    \/ \E r \in Slots : HandleData(r)
    \/ \E r \in Slots : Finish(r)
    \/ ConcTick

SpecConc == InitConc /\ [][NextConc]_vars

\* ------------------------------------------------------------ scorer calls
\* The vector with two outliers.
OutlierExample == <<0, 100, 50, 50, 50>>

\* The values of a weight, and the weight vectors of up to MaxWeights of them.
WeightValues == {0, 30, 50, 100}
WeightVectors == UNION {[1..n -> WeightValues] : n \in 0..MaxWeights}

\* The distances decay is asked for: whole grid steps, maxDistance and the
\* meters around it.
Distances ==
    {GridStep * k : k \in 0..5} \cup {maxDistance - 1, maxDistance, maxDistance + 1}

\* The grid maps given to the scorer: up to MaxCells cells on one meridian,
\* at 0, 1 or 5 grid steps from its origin, with one of three count vectors.
GridIds == <<"cell_0", "cell_1", "cell_2", "cell_3", "cell_4">>
CenterLats == {0, 1, 5}
CountVectors == {<<0, 0, 0, 0, 0>>, <<2, 0, 0, 0, 1>>, <<0, 3, 1, 0, 0>>}
GridMaps ==
    UNION {{[i \in 1..n |-> [gridId |-> GridIds[i], centerLat |-> f[i][1],
                             centerLng |-> 0, commodityCounts |-> f[i][2]]] :
               f \in [1..n -> CenterLats \X CountVectors]} : n \in 0..MaxCells}

\* The weights of the scorer's test, the specification's example, equal ones.
ScoreWeights == {<<85, 60, 40, 70, 90>>, OutlierExample, <<50, 50, 50, 50, 50>>}

\* calculateAllAggregatedScores and getSummary are followed step by step:
\* the amplified weights, the base scores, the aggregated scores and, for
\* getSummary, the statistics.
CallAllAggregatedScores ==
    /\ scorer.pc = "idle"
    /\ \E gridMap \in GridMaps, weights \in ScoreWeights :
          scorer' = [IdleScorer EXCEPT !.pc = "amplify", !.op = "scores",
                                       !.weights = weights, !.gridMap = gridMap]
    /\ UNCHANGED <<grids, places, now, req, active, nreq, nfault, lastFetch>>

CallSummary ==
    /\ scorer.pc = "idle"
    /\ \E gridMap \in GridMaps, weights \in ScoreWeights :
          scorer' = [IdleScorer EXCEPT !.pc = "amplify", !.op = "summary",
                                       !.weights = weights, !.gridMap = gridMap]
    /\ UNCHANGED <<grids, places, now, req, active, nreq, nfault, lastFetch>>

ResolveAmplified ==
    /\ scorer.pc = "amplify"
    /\ scorer' = [scorer EXCEPT !.pc = "base",
                                !.amplified = calculateVarianceMultipliers(scorer.weights)]
    /\ UNCHANGED <<grids, places, now, req, active, nreq, nfault, lastFetch>>

ResolveBase ==
    /\ scorer.pc = "base"
    /\ scorer' = [scorer EXCEPT
                     !.pc = "aggregate",
                     !.baseScores = calculateAllBaseScores(scorer.gridMap, scorer.weights,
                                                           <<scorer.amplified>>)]
    /\ UNCHANGED <<grids, places, now, req, active, nreq, nfault, lastFetch>>

Aggregate ==
    /\ scorer.pc = "aggregate"
    /\ scorer' = [scorer EXCEPT
                     !.pc = IF scorer.op = "summary" THEN "summarize" ELSE "returned",
                     !.results = calculateAllAggregatedScores(
                                     scorer.gridMap, scorer.weights,
                                     <<scorer.baseScores>>, <<scorer.amplified>>)]
    /\ UNCHANGED <<grids, places, now, req, active, nreq, nfault, lastFetch>>

Summarize ==
    /\ scorer.pc = "summarize"
    /\ scorer' = [scorer EXCEPT !.pc = "returned",
                                !.summary = summarize(scorer.gridMap, scorer.results)]
    /\ UNCHANGED <<grids, places, now, req, active, nreq, nfault, lastFetch>>

CallAmplify ==
    /\ scorer.pc = "idle"
    /\ \E weights \in WeightVectors :
          scorer' = [IdleScorer EXCEPT !.pc = "returned", !.op = "amplify",
                                       !.weights = weights,
                                       !.amplified = calculateVarianceMultipliers(weights)]
    /\ UNCHANGED <<grids, places, now, req, active, nreq, nfault, lastFetch>>

CallDecay ==
    /\ scorer.pc = "idle"
    /\ \E distance \in Distances :
          scorer' = [IdleScorer EXCEPT !.pc = "returned", !.op = "decay",
                                       !.distance = distance,
                                       !.decay = calculateScoreDecay(distance)]
    /\ UNCHANGED <<grids, places, now, req, active, nreq, nfault, lastFetch>>

\* The caller has its result; the scorer keeps nothing of the call.
Return ==
    /\ scorer.pc = "returned"
    /\ scorer' = IdleScorer
    /\ UNCHANGED <<grids, places, now, req, active, nreq, nfault, lastFetch>>

NextScore ==
    \/ CallAmplify
    \/ CallDecay
    \/ CallAllAggregatedScores
    \/ CallSummary
    \/ ResolveAmplified
    \/ ResolveBase
    \/ Aggregate
    \/ Summarize
    \/ Return

SpecScore == Init /\ [][NextScore]_vars

\* --------------------------------------------------------------- properties
InFetch(r) == req[r].pc \in {"fd_find", "fd_api", "fd_store", "fd_upsert", "fd_done"}

centerOf(r) == getHash(req[r].lat, req[r].lng)

\* The ids isCachedInRadius asks the repository about.
allGridIdsOf(r) == {centerOf(r)} \cup Range(neighbors(centerOf(r)))

placeIdsOf(list) == {list[i].place_id : i \in DOMAIN list}

NoTwoOfOneId(list) ==
    \A i, j \in DOMAIN list : list[i].place_id = list[j].place_id => i = j

WriteFaults == {"insert", "record", "update"}

\* C1: every id isCachedInRadius returns is the center or one of its
\* neighbors, and is stored with fetchStatus cached and an expiresAt later than
\* the current time; a cached cell whose expiresAt has passed is not returned.
C1_ValidCellsOnly ==
    \A r \in Slots :
        req[r].pc \in {"fd_find", "fd_api"} =>
            \A g \in Range(req[r].cachedGridIds) :
                /\ g \in allGridIdsOf(r)
                /\ g \in DOMAIN grids
                /\ grids[g].fetchStatus = "cached"
                /\ grids[g].expiresAt > now

\* isCachedInRadius has answered while a cell around the center is stored as
\* cached with its expiresAt passed.
C1_Witness ==
    \E r \in Slots :
        /\ req[r].pc \in {"fd_find", "fd_api"}
        /\ req[r].fault = "none"
        /\ \E g \in allGridIdsOf(r) :
              /\ g \in DOMAIN grids
              /\ grids[g].fetchStatus = "cached"
              /\ grids[g].expiresAt <= now
              /\ ~Includes(req[r].cachedGridIds, g)

\* C2: the Place collection holds at most one document per place_id, whatever
\* cells and types the place was stored under, and a storePlaces that meets a
\* place_id already present raises no error.
C2_OneRecordPerExternalId ==
    /\ NoTwoOfOneId(places)
    /\ \A r \in Slots :
          (req[r].pc = "fd_done" /\ req[r].dupSeen /\ req[r].fault = "none")
              => "error" \notin DOMAIN req[r].data

\* A fetch has stored, without error, a place that the collection already
\* held under another type.
C2_Witness ==
    \E r \in Slots :
        /\ req[r].pc = "fd_done"
        /\ req[r].dupSeen
        /\ req[r].fault = "none"
        /\ "error" \notin DOMAIN req[r].data
        /\ \E i \in DOMAIN places :
              /\ places[i].place_id \in placeIdsOf(req[r].apiPlaces)
              /\ places[i].commodityTypes # <<req[r].types[req[r].ti]>>

\* C3: a fetchData issues exactly one provider call when a footprint cell is
\* not valid in cache and none when every footprint cell is valid.
C3_OneCallIffUncached ==
    \A r \in Slots :
        (req[r].pc = "fd_done" /\ req[r].fault = "none")
            => req[r].calls = IF req[r].anyInvalid THEN 1 ELSE 0

\* C4: a fetchData that repeats, before the TTL has elapsed, the arguments of
\* a fetchData that stored a provider result issues no provider call.
C4_RepeatServedFromCache ==
    \A r \in Slots :
        (req[r].pc = "fd_done" /\ req[r].fault = "none" /\ req[r].repeat)
            => req[r].calls = 0

\* C5: after a fetchData that stored a provider result, getPlaces of every
\* cell it stored returns every record of the result.
C5_EveryCellHoldsACopy ==
    \A r \in Slots :
        (req[r].pc = "fd_done" /\ req[r].fault = "none")
            => \A i \in DOMAIN req[r].newGridIds :
                  placeIdsOf(req[r].apiPlaces)
                      \subseteq placeIdsOf(getPlaces(places, req[r].newGridIds[i], <<>>))

\* C6: the places fetchData returns, and those the handler answers with, hold
\* no two entries of one place_id, and count is the number of places returned.
C6_NoDuplicatePlaces ==
    \A r \in Slots :
        /\ (req[r].pc = "fd_done" /\ req[r].fault = "none")
              => /\ NoTwoOfOneId(req[r].data.places)
                 /\ req[r].data.count = Len(req[r].data.places)
        /\ (req[r].pc = "done" /\ req[r].fault = "none"
                                 /\ req[r].response.status = 200)
              => NoTwoOfOneId(req[r].response.places)

\* C7: a query with numeric lat, lng and radius is answered with places,
\* never with an error, whatever fails while it is served.
C7_NumericQueryNeverFails ==
    \A r \in Slots :
        (req[r].pc = "done" /\ Len(req[r].types) > 0)
            => req[r].response.status = 200

\* C8: when a storePlaces fails with an error other than a duplicate key,
\* fetchData still returns the records the provider answered with.
C8_FailedWriteKeepsFreshData ==
    \A r \in Slots :
        (req[r].pc = "fd_done" /\ req[r].fault \in WriteFaults)
            => placeIdsOf(req[r].apiPlaces) \subseteq placeIdsOf(req[r].data.places)

\* C9: when the insert of one record fails with an error other than a
\* duplicate key, the other records are in the collection and the cell is
\* upserted with fetchStatus cached and expiresAt = now + TTL.
C9_RecordFailureDoesNotBlock ==
    \A r \in Slots :
        (InFetch(r) /\ req[r].fault = "record")
            => /\ Cardinality(placeIdsOf(req[r].apiPlaces) \ placeIdsOf(places)) <= 1
               /\ req[r].storeCell[1] \in DOMAIN grids
               /\ grids[req[r].storeCell[1]].fetchStatus = "cached"
               /\ grids[req[r].storeCell[1]].expiresAt = now + cacheTTL

\* C10: in a request of several types, a failed provider call leaves that
\* type without places and nothing else: every type is fetched, the answer is
\* a success and holds every place the provider answered with for the others.
C10_ProviderFailureIsPerType ==
    \A r \in Slots :
        (req[r].pc = "done" /\ req[r].provFailed /\ req[r].fault = "none")
            => /\ req[r].response.status = 200
               /\ req[r].ti = Len(req[r].types)
               /\ req[r].fetched \subseteq placeIdsOf(req[r].response.places)

\* A request of two types has been answered: the provider failed for one
\* type and answered with places for the other.
C10_Witness ==
    \E r \in Slots :
        /\ req[r].pc = "done"
        /\ req[r].provFailed
        /\ req[r].fault = "none"
        /\ Len(req[r].types) = 2
        /\ req[r].fetched # {}
        /\ req[r].response.status = 200
        /\ req[r].fetched \subseteq placeIdsOf(req[r].response.places)

\* C11: a query whose lat, lng or radius is not a numeric text is answered
\* with the invalid-input error; nothing is fetched, read or stored for it.
C11_NonNumericRejected ==
    \A r \in Slots :
        (req[r].pc # "idle" /\ ~req[r].numeric)
            => /\ req[r].pc = "done"
               /\ req[r].response.status = 400

\* C20: a query whose lat is outside [-90, 90] or whose lng is outside
\* [-180, 180] is answered with an error; no cell id is computed for it, no
\* provider call is made and nothing is stored.
C20_OutOfRangeRejected ==
    \A r \in Slots :
        (req[r].lat > 90 \/ req[r].lat < -90 \/ req[r].lng > 180 \/ req[r].lng < -180)
            => /\ req[r].pc = "done"
               /\ req[r].response.status \in {400, 500}
               /\ req[r].calls = 0
               /\ req[r].newGridIds = <<>>

\* The cells both requests in flight found uncached, and the day of the last
\* Grid.updateOne either of them made for a cell.
sharedUncached == Range(req["a"].uncached) \cap Range(req["b"].uncached)

writesOf(g) ==
    {w \in UNION {Range(req[r].wrote) : r \in Slots} : w.g = g}

lastWriteOf(g) ==
    CHOOSE t \in {w.at : w \in writesOf(g)} : \A w \in writesOf(g) : w.at <= t

\* C12: when two concurrent fetchData calls that found the same cells
\* uncached have both returned, neither returned an error, each returned the
\* places the provider answered it with, the collection holds one document per
\* place_id, and every such cell that was written is cached with the expiresAt
\* of the last write.
C12_ConcurrentStoresAgree ==
    (sharedUncached # {} /\ \A r \in Slots : req[r].pc = "fd_done")
        => /\ \A r \in Slots :
                 /\ "error" \notin DOMAIN req[r].data
                 /\ req[r].fetched \subseteq placeIdsOf(req[r].data.places)
           /\ NoTwoOfOneId(places)
           /\ \A g \in sharedUncached :
                 writesOf(g) # {}
                     => /\ g \in DOMAIN grids
                        /\ grids[g].fetchStatus = "cached"
                        /\ grids[g].expiresAt = lastWriteOf(g) + cacheTTL

\* Both calls have returned; they wrote one cell on different days, and one
\* of them met a place the other had inserted.
C12_Witness ==
    /\ \A r \in Slots : req[r].pc = "fd_done" /\ "error" \notin DOMAIN req[r].data
    /\ \E r \in Slots : req[r].dupSeen
    /\ \E g \in sharedUncached :
          \E w1 \in Range(req["a"].wrote), w2 \in Range(req["b"].wrote) :
              w1.g = g /\ w2.g = g /\ w1.at # w2.at

\* A weight's side of the mean.
BelowMean(weights, i) == Len(weights) * weights[i] < Sum(weights)
AboveMean(weights, i) == Len(weights) * weights[i] > Sum(weights)

Amplified == scorer.pc = "returned" /\ scorer.op = "amplify"

\* C14 (as stated): calculateVarianceMultipliers moves every weight that is
\* off the mean strictly further from the mean; for <<0, 100, 50, 50, 50>> the
\* results for 0 and 100 are further than 50 from the mean 50.
C14_OutliersMoveStrictlyFurther ==
    Amplified =>
        /\ \A i \in DOMAIN scorer.weights :
              /\ BelowMean(scorer.weights, i) => scorer.amplified[i] < 100 * scorer.weights[i]
              /\ AboveMean(scorer.weights, i) => scorer.amplified[i] > 100 * scorer.weights[i]
        /\ scorer.weights = OutlierExample
              => /\ MathAbs(scorer.amplified[1] - 5000) > 5000
                 /\ MathAbs(scorer.amplified[2] - 5000) > 5000

\* C14 (amended): calculateVarianceMultipliers moves every weight that is off
\* the mean strictly further from the mean or to the bound 0 or 100 on its
\* side, never nearer; for <<0, 100, 50, 50, 50>> the results for 0 and 100 are
\* 0 and 100, as far from the mean as they were.
C14_OutliersMoveFurtherOrToBound ==
    Amplified =>
        /\ \A i \in DOMAIN scorer.weights :
              /\ BelowMean(scorer.weights, i)
                    => \/ scorer.amplified[i] < 100 * scorer.weights[i]
                       \/ scorer.amplified[i] = 0
              /\ AboveMean(scorer.weights, i)
                    => \/ scorer.amplified[i] > 100 * scorer.weights[i]
                       \/ scorer.amplified[i] = 10000
        /\ scorer.weights = OutlierExample
              => scorer.amplified = <<0, 10000, 5000, 5000, 5000>>

\* The example has been amplified: its outliers are at the bounds.
C14_Witness ==
    /\ Amplified
    /\ scorer.weights = OutlierExample
    /\ scorer.amplified[1] = 0
    /\ scorer.amplified[2] = 10000

\* C15: every result of calculateVarianceMultipliers for weights of 0..100
\* lies in 0..100, and on the side of the mean its weight is on.
C15_WithinBoundsSameSide ==
    Amplified =>
        \A i \in DOMAIN scorer.weights :
            /\ scorer.amplified[i] >= 0
            /\ scorer.amplified[i] <= 10000
            /\ BelowMean(scorer.weights, i)
                  => Len(scorer.weights) * scorer.amplified[i] <= 100 * Sum(scorer.weights)
            /\ AboveMean(scorer.weights, i)
                  => Len(scorer.weights) * scorer.amplified[i] >= 100 * Sum(scorer.weights)

\* A weight above 0 has been amplified down to the bound 0 while the weights
\* above the mean stayed above it.
C15_Witness ==
    /\ Amplified
    /\ \E i \in DOMAIN scorer.weights :
          scorer.weights[i] > 0 /\ scorer.amplified[i] = 0
    /\ \E i \in DOMAIN scorer.weights :
          /\ AboveMean(scorer.weights, i)
          /\ scorer.amplified[i] > 100 * scorer.weights[i]

\* C16: calculateVarianceMultipliers returns a vector of equal weights as it
\* is.
C16_EqualWeightsUnchanged ==
    (Amplified /\ \A i, j \in DOMAIN scorer.weights : scorer.weights[i] = scorer.weights[j])
        => scorer.amplified = [i \in DOMAIN scorer.weights |-> 100 * scorer.weights[i]]

\* <<50, 50, 50, 50, 50>> has been amplified.
C16_Witness ==
    /\ Amplified
    /\ scorer.weights = <<50, 50, 50, 50, 50>>
    /\ scorer.amplified = <<5000, 5000, 5000, 5000, 5000>>

Decayed == scorer.pc = "returned" /\ scorer.op = "decay"

\* C19: calculateScoreDecay is 1 at distance 0, 0 beyond maxDistance, and up
\* to maxDistance it is above 0, at most 1 and no larger than at any shorter
\* distance; at maxDistance itself it is exp(-decayFactor).
C19_DecayShape ==
    Decayed =>
        /\ scorer.distance = 0 => scorer.decay = 10000
        /\ scorer.distance > maxDistance => scorer.decay = 0
        /\ scorer.distance <= maxDistance
              => /\ scorer.decay > 0
                 /\ scorer.decay <= 10000
                 /\ \A shorter \in Distances :
                       shorter <= scorer.distance
                           => calculateScoreDecay(shorter) >= scorer.decay
        /\ scorer.distance = maxDistance => scorer.decay = MathExp(8 * decayFactor)

\* The decay at maxDistance has been computed, and it is not 0.
C19_Witness ==
    /\ Decayed
    /\ scorer.distance = maxDistance
    /\ scorer.decay = MathExp(8 * decayFactor)
    /\ scorer.decay > 0

\* The aggregated scores of the call are there.
Scored ==
    /\ scorer.op \in {"scores", "summary"}
    /\ scorer.pc \in {"summarize", "returned"}

\* No other cell of the grid map is within maxDistance of cell i.
Lone(i) ==
    \A j \in DOMAIN scorer.gridMap :
        j # i => GridStep * MathAbs(scorer.gridMap[j].centerLat
                                       - scorer.gridMap[i].centerLat) > maxDistance

scoresOf(breakdown) == {breakdown[k].score : k \in DOMAIN breakdown}

\* C13: for a cell with no other cell within maxDistance the aggregated score
\* is the base score, and the cell itself is the only contributing cell.
C13_LoneCellKeepsBaseScore ==
    Scored =>
        \A i \in DOMAIN scorer.gridMap :
            Lone(i) =>
                /\ scorer.results[i].aggregatedScore = scorer.results[i].baseScore
                /\ scorer.results[i].contributingGrids = 1
                /\ Len(scorer.results[i].breakdown) = 1
                /\ scorer.results[i].breakdown[1].gridId = scorer.gridMap[i].gridId

\* A cell with a base score above 0 is alone while the map holds another
\* cell, of another base score.
C13_Witness ==
    /\ Scored
    /\ \E i, j \in DOMAIN scorer.gridMap :
          /\ Lone(i)
          /\ scorer.results[i].baseScore > 0
          /\ scorer.results[i].aggregatedScore = scorer.results[i].baseScore
          /\ scorer.results[j].baseScore # scorer.results[i].baseScore

\* C17: every result of calculateAllAggregatedScores has its base score and
\* its aggregated score in 0..100, the aggregated score between the lowest
\* and the highest base score of the cells that contributed to it.
C17_ScoresWithinBounds ==
    Scored =>
        \A i \in DOMAIN scorer.results :
            LET result == scorer.results[i]
            IN /\ result.baseScore >= 0 /\ result.baseScore <= 10000
               /\ result.aggregatedScore >= 0 /\ result.aggregatedScore <= 10000
               /\ \E low, high \in scoresOf(result.breakdown) :
                     low <= result.aggregatedScore /\ result.aggregatedScore <= high

\* An aggregated score lies strictly between the base scores of two cells
\* that contributed to it.
C17_Witness ==
    /\ Scored
    /\ \E i \in DOMAIN scorer.results :
          \E low, high \in scoresOf(scorer.results[i].breakdown) :
              /\ low < scorer.results[i].aggregatedScore
              /\ scorer.results[i].aggregatedScore < high

\* C18: getSummary reports the sum of all commodityCounts of all cells as the
\* total, and the mean, median, lowest and highest aggregated score.
C18_SummaryTotalsAmenities ==
    (scorer.op = "summary" /\ scorer.pc = "returned" /\ scorer.gridMap # <<>>) =>
        LET aggregated == [i \in DOMAIN scorer.results |->
                              scorer.results[i].aggregatedScore]
            n == Len(aggregated)
        IN /\ scorer.summary.totalCommodities =
                  Sum([i \in DOMAIN scorer.gridMap |->
                          Sum(scorer.gridMap[i].commodityCounts)])
           /\ scorer.summary.averageScore = Quotient(Sum(aggregated), n)
           /\ \A i \in 1..n : /\ scorer.summary.minScore <= aggregated[i]
                               /\ scorer.summary.maxScore >= aggregated[i]
           /\ \E i, j \in 1..n : /\ scorer.summary.minScore = aggregated[i]
                                  /\ scorer.summary.maxScore = aggregated[j]
           /\ 2 * Cardinality({i \in 1..n : aggregated[i] <= scorer.summary.medianScore}) >= n
           /\ 2 * Cardinality({i \in 1..n : aggregated[i] >= scorer.summary.medianScore}) >= n

\* C21: in a request of several types on an empty cache, a provider call is
\* issued for every requested type: the cells stored for an earlier type do
\* not count as cached for a later one.
C21_EveryTypeFetched ==
    \A r \in Slots :
        (req[r].pc = "done" /\ nreq = 1 /\ Len(req[r].types) > 1
                            /\ req[r].fault = "none")
            => Range(req[r].issued) = 1..Len(req[r].types)

\* C22: every store of a fetch leaves its cell with fetchStatus cached and
\* expiresAt = the time of the store + TTL; isCachedInRadius returns a stored
\* cell exactly while the time is before its expiresAt, so a cell is returned
\* from its store on, left out once its expiresAt has passed, its status
\* still cached, and returned again after the next store.
C22_StoreSetsFreshExpiry ==
    \A r \in Slots :
        /\ req[r].pc \in {"fd_store", "fd_done"} =>
              \A g \in Range(req[r].newGridIds) :
                  /\ g \in DOMAIN grids
                  /\ grids[g].fetchStatus = "cached"
                  /\ grids[g].expiresAt = now + cacheTTL
        /\ req[r].pc \in {"fd_find", "fd_api"} =>
              \A g \in allGridIdsOf(r) :
                  Includes(req[r].cachedGridIds, g)
                      <=> (g \in DOMAIN grids /\ now < grids[g].expiresAt)
        /\ \A g \in req[r].lapsed :
              g \in DOMAIN grids /\ grids[g].fetchStatus = "cached"

\* isCachedInRadius returns a cell that an earlier read had left out: its
\* expiresAt had passed, and it has been stored again since.
C22_Witness ==
    \E r \in Slots :
        /\ req[r].pc = "fd_find"
        /\ \E g \in req[r].lapsed :
              /\ Includes(req[r].cachedGridIds, g)
              /\ grids[g].expiresAt = now + cacheTTL
              /\ now >= cacheTTL

\* C23: when the Grid.find of isCachedInRadius is rejected, isCachedInRadius
\* returns the empty list and raises nothing: fetchData takes every cell of
\* the footprint for uncached, issues the provider call and, unless a write
\* fails after that, returns no error.
C23_FailedReadIsCacheMiss ==
    \A r \in Slots :
        (InFetch(r) /\ req[r].readFailed) =>
            /\ req[r].cachedGridIds = <<>>
            /\ req[r].uncached =
                   getGridsInRadius(req[r].lat, req[r].lng, req[r].radius)
            /\ req[r].pc = "fd_api" \/ req[r].calls = 1
            /\ (req[r].pc = "fd_done" /\ req[r].fault = "gridFind")
                   => "error" \notin DOMAIN req[r].data

\* A fetch whose Grid.find was rejected has called the provider and returned
\* although a cell of its footprint was valid in cache.
C23_Witness ==
    \E r \in Slots :
        /\ req[r].pc = "fd_done"
        /\ req[r].readFailed
        /\ req[r].calls = 1
        /\ "error" \notin DOMAIN req[r].data
        /\ req[r].newGridIds = <<>>
        /\ \E g \in allGridIdsOf(r) : Valid(g) /\ Includes(req[r].uncached, g)

\* The cells of the first ring around the center of the request, and those
\* around the cells of the first ring.
firstRing(r) == {centerOf(r)} \cup Range(neighbors(centerOf(r)))
secondRing(r) == UNION {Range(neighbors(n)) : n \in Range(neighbors(centerOf(r)))}

\* C24: the list getGridsInRadius returns holds no cell twice; it is the
\* center and its neighbors for a radius up to 10000 meters, 10000 included,
\* and these and the neighbors of every neighbor for a larger radius; the
\* footprint of the smaller radius is part of that of the larger one.
C24_FootprintRings ==
    \A r \in Slots :
        (req[r].pc = "fd_api" /\ req[r].cachedGridIds = <<>>) =>
            LET footprint == req[r].uncached
            IN /\ \A i, j \in DOMAIN footprint : footprint[i] = footprint[j] => i = j
               /\ req[r].radius <= 10000 => Range(footprint) = firstRing(r)
               /\ req[r].radius > 10000 =>
                      Range(footprint) = firstRing(r) \cup secondRing(r)
               /\ Range(getGridsInRadius(req[r].lat, req[r].lng, 10000))
                      \subseteq Range(getGridsInRadius(req[r].lat, req[r].lng, 10001))

\* fetchData has the footprint of a radius above 10000 meters: the 9 cells
\* of the first ring and 16 more.
C24_Witness ==
    \E r \in Slots :
        /\ req[r].pc = "fd_api"
        /\ req[r].cachedGridIds = <<>>
        /\ req[r].radius > 10000
        /\ Cardinality(firstRing(r)) = 9
        /\ Len(req[r].uncached) = 25

C26_OneCallAtATimeInOrder ==
    \A r \in Slots :
        LET issued == req[r].issued
        IN /\ \A i, j \in DOMAIN issued : i < j => issued[i] < issued[j]
           /\ \A i \in DOMAIN issued : issued[i] <= req[r].ti
           /\ req[r].pc = "fd_api" =>
                  /\ \A i \in DOMAIN issued : issued[i] < req[r].ti
                  /\ req[r].newGridIds = <<>>
                  /\ req[r].apiPlaces = <<>>
           /\ req[r].pc = "fd_store" =>
                  /\ issued # <<>>
                  /\ issued[Len(issued)] = req[r].ti
                  /\ Len(req[r].newGridIds) < Len(req[r].uncached)

\* The second call of a request of two types has been answered and its
\* places stored, after the places of the first call.
C26_Witness ==
    \E r \in Slots :
        /\ req[r].pc = "fd_done"
        /\ req[r].issued = <<1, 2>>
        /\ req[r].newGridIds # <<>>
        /\ \E i \in DOMAIN places : places[i].commodityTypes = <<req[r].types[1]>>

\* C27: whatever fetches and stores have been made, no cell of the Grid
\* collection has the fetchStatus expired: every stored cell has the status
\* cached, the only one storePlaces writes.
C27_NoExpiredStatus ==
    \A g \in DOMAIN grids : grids[g].fetchStatus = "cached"

\* A store has been made while another cell's expiresAt had passed; that
\* cell still has the status cached.
C27_Witness ==
    \E g, h \in DOMAIN grids :
        /\ grids[g].expiresAt <= now
        /\ grids[g].fetchStatus = "cached"
        /\ grids[h].fetchedAt = now
        /\ grids[h].fetchedAt >= grids[g].expiresAt

\* The cells of the grid map within maxDistance of cell i, cell i included.
withinMaxDistance(i) ==
    {j \in DOMAIN scorer.gridMap :
        GridStep * MathAbs(scorer.gridMap[j].centerLat - scorer.gridMap[i].centerLat)
            <= maxDistance}

\* C28: the breakdown of a cell of the grid map is sorted by ascending
\* distance and holds, once each, the cells within maxDistance of the cell,
\* among them the cell itself with distance 0 and weight 1; contributingGrids
\* is the length of the breakdown, 1 at least.
C28_BreakdownSortedAndComplete ==
    Scored =>
        \A i \in DOMAIN scorer.results :
            LET breakdown == scorer.results[i].breakdown
            IN /\ \A k, l \in DOMAIN breakdown :
                     k < l => breakdown[k].distance <= breakdown[l].distance
               /\ {breakdown[k].gridId : k \in DOMAIN breakdown}
                     = {scorer.gridMap[j].gridId : j \in withinMaxDistance(i)}
               /\ Len(breakdown) = Cardinality(withinMaxDistance(i))
               /\ \E k \in DOMAIN breakdown :
                     /\ breakdown[k].gridId = scorer.gridMap[i].gridId
                     /\ breakdown[k].distance = 0
                     /\ breakdown[k].weight = 10000
               /\ scorer.results[i].contributingGrids = Len(breakdown)
               /\ Len(breakdown) >= 1

\* The breakdown of a cell starts with the cell itself and goes on with a
\* cell, further away, that comes before it in the grid map, while a third
\* cell is too far to be in it.
C28_Witness ==
    /\ Scored
    /\ \E i \in DOMAIN scorer.results :
          LET breakdown == scorer.results[i].breakdown
          IN /\ i > 1
             /\ Len(breakdown) = 2
             /\ Len(scorer.gridMap) = 3
             /\ breakdown[1].gridId = scorer.gridMap[i].gridId
             /\ breakdown[2].gridId = scorer.gridMap[1].gridId
             /\ breakdown[2].distance > 0

\* The decay-weighted mean of the base scores listed in a breakdown.
weightedMean(breakdown) ==
    Quotient(Sum([k \in DOMAIN breakdown |-> breakdown[k].score * breakdown[k].weight]),
             Sum([k \in DOMAIN breakdown |-> breakdown[k].weight]))

\* C29: a cell whose counts add up to zero has the base score 0, a number,
\* and an aggregated score that is a number of 0..100, the decay-weighted
\* mean of the base scores of the cells around it and its own.
C29_EmptyCellScoresZero ==
    Scored =>
        \A i \in DOMAIN scorer.gridMap :
            Sum(scorer.gridMap[i].commodityCounts) = 0 =>
                /\ scorer.baseScores[i].score = 0
                /\ scorer.results[i].baseScore = 0
                /\ scorer.results[i].aggregatedScore \in 0..10000
                /\ scorer.results[i].aggregatedScore
                       = weightedMean(scorer.results[i].breakdown)

\* A cell without any count has an aggregated score above 0, from a cell
\* near it.
C29_Witness ==
    /\ Scored
    /\ \E i \in DOMAIN scorer.gridMap :
          /\ Sum(scorer.gridMap[i].commodityCounts) = 0
          /\ scorer.results[i].baseScore = 0
          /\ scorer.results[i].aggregatedScore > 0
          /\ scorer.results[i].contributingGrids > 1

\* C30: calculateAllAggregatedScores returns one result per cell of the grid
\* map, in the order of the map; the results it returns when it is given the
\* base scores and the amplified weights are those it returns when it
\* computes them itself, and those calculateAggregatedScore returns for each
\* cell alone.
C30_PrecomputedSameAsComputed ==
    Scored =>
        /\ Len(scorer.results) = Len(scorer.gridMap)
        /\ \A i \in DOMAIN scorer.gridMap :
              scorer.results[i].gridId = scorer.gridMap[i].gridId
        /\ scorer.results
              = calculateAllAggregatedScores(scorer.gridMap, scorer.weights, <<>>, <<>>)
        /\ \A i \in DOMAIN scorer.gridMap :
              scorer.results[i]
                  = calculateAggregatedScore(scorer.gridMap[i].gridId, scorer.gridMap,
                                             scorer.weights, <<>>, <<>>)

\* The scores of a map of three cells have been computed from given base
\* scores and amplified weights that differ from the weights, and a cell's
\* aggregated score differs from its base score.
C30_Witness ==
    /\ Scored
    /\ Len(scorer.results) = 3
    /\ \E k \in DOMAIN scorer.weights : scorer.amplified[k] # 100 * scorer.weights[k]
    /\ \E i \in DOMAIN scorer.results :
          /\ scorer.results[i].aggregatedScore # scorer.results[i].baseScore
          /\ scorer.results[i]
                = calculateAggregatedScore(scorer.gridMap[i].gridId, scorer.gridMap,
                                           scorer.weights, <<>>, <<>>)

====
